---- MODULE Spec2Model ----
(***************************************************************************)
(* The skip list of beetledb/bleh/skiplist.py and its page codec of        *)
(* beetledb/bleh/filewriter.py.                                            *)
(*                                                                         *)
(* Objects live in a heap: a function from object ids to SkipNode records. *)
(* Id 0 is the head node made by SkipList.__init__; insert allocates the   *)
(* next id.  forwards is a sequence, so the slot of level i is             *)
(* forwards[i + 1].                                                        *)
(***************************************************************************)
EXTENDS Integers, Sequences, FiniteSets, TLC

\* ------------------------------------------------------------------ bounds
MaxLevel == 2         \* the max_level the SkipList is constructed with
MaxValue == 3         \* values inserted, searched and removed are 1..MaxValue
MaxNodes == 4         \* number of insert calls made on one list
MaxPageNodes == 2     \* number of insert calls made on a list whose page is damaged
MaxTallValue == 2     \* values inserted into and removed from a list of max_level 5

\* --------------------------------------------------------------- constants
NIL == -1             \* Python None, as a forward slot and as a value
NO_VALUE == 65535     \* 0xFFFF: a value of None in a node payload, no node in a lane
DecoderMaxLevel == 5  \* SkipList(max_level=5, probab=0.25) in marshal_from_page
HeadId == 0           \* the heap id of the head node SkipList.__init__ makes

MAGIC_BYTE == <<222, 173, 190, 239>>  \* b"\xde\xad\xbe\xef"
TYPE_DATA == <<190>>                  \* b"\xbe"
TYPE_LANE == <<239>>                  \* b"\xef"
EOF == <<238, 15>>                    \* b"\xee\x0f"

HeadName == <<104, 101, 97, 100>>     \* "head"

Values == 1 .. MaxValue

VARIABLES
    nodes,       \* the heap: id -> SkipNode
    max_level,   \* SkipList.max_level
    level,       \* SkipList.level
    size,        \* SkipList.size
    ret,         \* the last call: [op, arg, val], val the returned value or the exception
    inserted,    \* values passed to insert so far
    live,        \* nodes insert made that no remove has since returned from unlinking
    dup,         \* an insert was given a value the level-0 chain already held
    pc,          \* "ops": the list is in use; "page": marshal_to_page has returned buf;
                 \* "print": marshal_from_page is in its closing print_list;
                 \* "returned" / "raised": marshal_from_page has returned / raised
    buf,         \* the page handed to marshal_from_page
    dec,         \* the list marshal_from_page builds
    pl_level,    \* print_list: the level of its for loop
    pl_curr,     \* print_list: curr of its while loop
    level_repr   \* print_list: the nodes appended for this level so far

list == <<nodes, max_level, level, size>>
hist == <<inserted, live, dup>>
codec == <<buf, dec, pl_level, pl_curr, level_repr>>
vars == <<nodes, max_level, level, size, ret, inserted, live, dup,
          pc, buf, dec, pl_level, pl_curr, level_repr>>

\* SkipNode.__init__: level = max_level + 1 forward slots, all None
SkipNode(name, value, maxlvl) ==
    [name |-> name, value |-> value, level |-> maxlvl + 1,
     forwards |-> [i \in 1 .. (maxlvl + 1) |-> NIL]]

\* curr.forwards[i]
Fwd(h, n, i) == h[n].forwards[i + 1]

\* WalkLane with the comparison turned round
RECURSIVE WalkLaneInverted(_, _, _, _)
WalkLaneInverted(h, curr, i, value) ==
    IF Fwd(h, curr, i) # NIL /\ h[Fwd(h, curr, i)].value > value
    THEN WalkLaneInverted(h, Fwd(h, curr, i), i, value)
    ELSE curr

\* the inner while of insert, search and remove:
\*   while curr and curr.forwards[i] and curr.forwards[i].value < value
RECURSIVE WalkLane(_, _, _, _)
WalkLane(h, curr, i, value) ==
    IF Fwd(h, curr, i) # NIL /\ h[Fwd(h, curr, i)].value < value
    THEN WalkLane(h, Fwd(h, curr, i), i, value)
    ELSE curr

\* for i in range(self.level, -1, -1): <walk>; updates[i] = curr
RECURSIVE Descend(_, _, _, _, _)
Descend(h, curr, i, value, updates) ==
    IF i < 0 THEN updates
    ELSE LET c == WalkLane(h, curr, i, value)
         IN  Descend(h, c, i - 1, value, [updates EXCEPT ![i] = c])

Updates(h, maxlvl, lvl, value) ==
    Descend(h, HeadId, lvl, value, [i \in 0 .. maxlvl |-> NIL])

\* SkipList._random_level: the values random.randint can return
random_level(sz, maxlvl) ==
    IF sz % 2 = 0 THEN 0 .. (maxlvl \div 2) ELSE (maxlvl \div 2) .. maxlvl

\* Splice over range(new_lvl): the top level of the node is left out
RECURSIVE SpliceBelowTop(_, _, _, _, _)
SpliceBelowTop(h, node, updates, lvl, new_lvl) ==
    IF lvl >= new_lvl THEN h
    ELSE LET succ == Fwd(h, updates[lvl], lvl)
             h1 == [h EXCEPT ![node].forwards[lvl + 1] = succ]
             h2 == [h1 EXCEPT ![updates[lvl]].forwards[lvl + 1] = node]
         IN  SpliceBelowTop(h2, node, updates, lvl + 1, new_lvl)

\* the splice loop of insert: for lvl in range(new_lvl + 1)
RECURSIVE Splice(_, _, _, _, _)
Splice(h, node, updates, lvl, new_lvl) ==
    IF lvl > new_lvl THEN h
    ELSE LET replacing == updates[lvl]
         IN  IF replacing = NIL
             THEN Splice(h, node, updates, lvl + 1, new_lvl)
             ELSE LET succ == Fwd(h, replacing, lvl)
                      h1 == [h EXCEPT ![node].forwards[lvl + 1] = succ]
                      h2 == [h1 EXCEPT ![replacing].forwards[lvl + 1] = node]
                  IN  Splice(h2, node, updates, lvl + 1, new_lvl)

\* SkipList.insert, given the level _random_level drew; the new node gets id
\* `node`.  Returns the fields of the list after the call.
insert(h, maxlvl, lvl, sz, node, key, value, new_lvl) ==
    LET found == Updates(h, maxlvl, lvl, value)
        \* if new_lvl > self.level: updates[i] = self.head for the new lanes
        updates == [i \in 0 .. maxlvl |->
                       IF i > lvl /\ i <= new_lvl THEN HeadId ELSE found[i]]
        h0 == [n \in (DOMAIN h) \cup {node} |->
                  IF n = node THEN SkipNode(key, value, new_lvl) ELSE h[n]]
    IN  [nodes |-> Splice(h0, node, updates, 0, new_lvl),
         level |-> IF new_lvl > lvl THEN new_lvl ELSE lvl,
         size  |-> sz + 1]

\* SkipList.search
search(h, lvl, value) ==
    LET curr == Updates(h, lvl, lvl, value)[0]
        nxt == Fwd(h, curr, 0)
    IN  nxt # NIL /\ h[nxt].value = value

\* the unlink loop of remove: for i in range(self.max_level, -1, -1).
\* raised: the loop stopped at raise Exception("node_mismatch"), keeping the
\* slots it had already rewritten.
RECURSIVE Unlink(_, _, _, _)
Unlink(h, updates, curr, i) ==
    IF i < 0 THEN [nodes |-> h, raised |-> FALSE]
    ELSE IF updates[i] = NIL THEN Unlink(h, updates, curr, i - 1)
    ELSE IF Fwd(h, updates[i], i) # curr THEN [nodes |-> h, raised |-> TRUE]
    ELSE Unlink([h EXCEPT ![updates[i]].forwards[i + 1] = Fwd(h, curr, i)],
                updates, curr, i - 1)

\* while self.level > 0 and self.head.forwards[self.max_level] is None:
\*     self.level -= 1
RECURSIVE ShrinkLevel(_, _, _)
ShrinkLevel(h, maxlvl, lvl) ==
    IF lvl > 0 /\ Fwd(h, HeadId, maxlvl) = NIL
    THEN ShrinkLevel(h, maxlvl, lvl - 1)
    ELSE lvl

\* SkipList.remove.  val is what the call returns ("False", or "None" when it
\* falls off the end of the function) or the exception it raises; node is the
\* node it set out to unlink.
remove(h, maxlvl, lvl, sz, value) ==
    LET updates == Updates(h, maxlvl, lvl, value)
        curr == Fwd(h, updates[0], 0)
        same == [nodes |-> h, level |-> lvl, size |-> sz, val |-> "False", node |-> NIL]
    IN  IF curr = NIL THEN same
        ELSE IF h[curr].value # value THEN same
        ELSE LET u == Unlink(h, updates, curr, maxlvl)
             IN  IF u.raised
                 THEN [nodes |-> u.nodes, level |-> lvl, size |-> sz,
                       val |-> "node_mismatch", node |-> curr]
                 ELSE [nodes |-> u.nodes, level |-> ShrinkLevel(u.nodes, maxlvl, lvl),
                       size |-> sz - 1, val |-> "None", node |-> curr]

\* the chain of level i from node n: the ids after n, in order
RECURSIVE Chain(_, _, _)
Chain(h, n, i) ==
    IF Fwd(h, n, i) = NIL THEN <<>>
    ELSE <<Fwd(h, n, i)>> \o Chain(h, Fwd(h, n, i), i)

Range(s) == {s[k] : k \in DOMAIN s}

\* ------------------------------------------------------------------ bytes
\* struct.pack("<I", x), for 0 <= x < 2^32
U32(x) == <<x % 256, (x \div 256) % 256, (x \div 65536) % 256, (x \div 16777216) % 256>>

\* struct.unpack_from("<I", b, offset)[0]; offset counts from 0
U32At(b, offset) ==
    b[offset + 1] + 256 * b[offset + 2] + 65536 * b[offset + 3] + 16777216 * b[offset + 4]

\* struct.unpack_from raises struct.error unless n bytes are left at offset
CanUnpack(b, offset, n) == offset + n <= Len(b)

\* the slice b[offset : offset + n], which Python cuts short at the end of b
Slice(b, offset, n) ==
    SubSeq(b, offset + 1, IF offset + n < Len(b) THEN offset + n ELSE Len(b))

\* str.encode("utf-8"), for code points below 0x800
RECURSIVE Utf8(_)
Utf8(name) ==
    IF name = <<>> THEN <<>>
    ELSE LET c == Head(name)
         IN  (IF c < 128 THEN <<c>> ELSE <<192 + (c \div 64), 128 + (c % 64)>>)
             \o Utf8(Tail(name))

\* bytes.decode("utf-8") of sequences of at most two bytes each: the decoded
\* code points, or <<NIL>> where Python raises UnicodeDecodeError
RECURSIVE Utf8Decode(_)
Utf8Decode(b) ==
    IF b = <<>> THEN <<>>
    ELSE IF b[1] < 128
         THEN LET rest == Utf8Decode(Tail(b))
              IN  IF rest = <<NIL>> THEN rest ELSE <<b[1]>> \o rest
    ELSE IF b[1] >= 194 /\ b[1] < 224 /\ Len(b) >= 2 /\ b[2] >= 128 /\ b[2] < 192
         THEN LET rest == Utf8Decode(Tail(Tail(b)))
              IN  IF rest = <<NIL>> THEN rest
                  ELSE <<(b[1] - 192) * 64 + (b[2] - 128)>> \o rest
    ELSE <<NIL>>

\* SkipNode.to_bytes
to_bytes(n) ==
    U32(Len(n.name)) \o Utf8(n.name)
        \o U32(IF n.value = NIL THEN NO_VALUE ELSE n.value)
        \o U32(n.level)

\* SkipNode.from_bytes(b, offset=0): [err, node]; err is "" or the exception raised
from_bytes(b) ==
    LET none == SkipNode(<<>>, NIL, 0)
        key_len == U32At(b, 0)
        key == Utf8Decode(Slice(b, 4, key_len))
        offset == 4 + key_len
        value == U32At(b, offset)
        lvl == U32At(b, offset + 4)
    IN  IF ~CanUnpack(b, 0, 4) THEN [err |-> "struct_error", node |-> none]
        ELSE IF key = <<NIL>> THEN [err |-> "unicode_decode_error", node |-> none]
        ELSE IF ~CanUnpack(b, offset, 4) \/ ~CanUnpack(b, offset + 4, 4)
             THEN [err |-> "struct_error", node |-> none]
        ELSE [err |-> "",
              node |-> SkipNode(key, IF value # NO_VALUE THEN value ELSE NIL, lvl - 1)]

\* ------------------------------------------------------- marshal_to_page
\* Bfs with the forwards of a node put in front of the queue: depth first
RECURSIVE BfsDepthFirst(_, _, _)
BfsDepthFirst(h, queue, order) ==
    IF queue = <<>> THEN order
    ELSE LET n == Head(queue)
         IN  IF n \in Range(order) THEN BfsDepthFirst(h, Tail(queue), order)
             ELSE LET seen == Append(order, n)
                      fwds == SelectSeq(h[n].forwards,
                                        LAMBDA f : f # NIL /\ f \notin Range(seen))
                  IN  BfsDepthFirst(h, fwds \o Tail(queue), seen)

\* the BFS of marshal_to_page: the nodes in the order they get their index
RECURSIVE Bfs(_, _, _)
Bfs(h, queue, order) ==
    IF queue = <<>> THEN order
    ELSE LET n == Head(queue)
         IN  IF n \in Range(order) THEN Bfs(h, Tail(queue), order)
             ELSE LET seen == Append(order, n)
                      fwds == SelectSeq(h[n].forwards,
                                        LAMBDA f : f # NIL /\ f \notin Range(seen))
                  IN  Bfs(h, Tail(queue) \o fwds, seen)

\* IndexOf counting from one
IndexOfOneBased(order, n) == CHOOSE k \in 1 .. Len(order) : order[k] = n

\* nodes[node]: the index the BFS gave a node
IndexOf(order, n) == (CHOOSE k \in 1 .. Len(order) : order[k] = n) - 1

\* one node record per entry of the nodes dict, in insertion order
RECURSIVE NodeRecords(_, _, _)
NodeRecords(h, order, k) ==
    IF k > Len(order) THEN <<>>
    ELSE LET node_bytes == to_bytes(h[order[k]])
         IN  TYPE_DATA \o U32(k - 1) \o U32(Len(node_bytes)) \o node_bytes
                 \o NodeRecords(h, order, k + 1)

\* level_repr: while curr and len(curr.forwards) > level
RECURSIVE LaneNodes(_, _, _)
LaneNodes(h, curr, lvl) ==
    IF curr = NIL \/ ~(Len(h[curr].forwards) > lvl) THEN <<>>
    ELSE <<curr>> \o LaneNodes(h, Fwd(h, curr, lvl), lvl)

RECURSIVE LaneIndices(_, _, _)
LaneIndices(order, lane, k) ==
    IF k > Len(lane) THEN <<>>
    ELSE U32(IndexOf(order, lane[k])) \o LaneIndices(order, lane, k + 1)

\* the lane records, for level in range(skplist.level, -1, -1)
RECURSIVE LaneRecords(_, _, _)
LaneRecords(h, order, lvl) ==
    IF lvl < 0 THEN <<>>
    ELSE LET lane == LaneNodes(h, HeadId, lvl)
         IN  TYPE_LANE \o U32(lvl) \o U32(Len(lane)) \o LaneIndices(order, lane, 1)
                 \o LaneRecords(h, order, lvl - 1)

\* FileWriter.marshal_to_page
marshal_to_page(h, lvl) ==
    LET order == Bfs(h, <<HeadId>>, <<>>)
    IN  MAGIC_BYTE \o U32(lvl) \o <<0, 0, 0>>
            \o NodeRecords(h, order, 1)
            \o LaneRecords(h, order, lvl)
            \o EOF

\* ----------------------------------------------------- marshal_from_page
\* The list marshal_from_page is building.  objs is its heap: object 0 is the
\* head SkipList.__init__ made, the others are the parsed nodes in file order;
\* index is the dict `nodes` (file index -> object); status is "ok" or the
\* exception raised; constructed: SkipList(...) has been called.
NoList(status) ==
    [status |-> status, constructed |-> FALSE, parsed |-> 0, offset |-> 4,
     objs |-> <<>>, index |-> <<>>, head |-> NIL, level |-> 0,
     max_level |-> 0, size |-> 0]

Raise(d, status) == [d EXCEPT !.status = status]

\* the first while loop: the node records
RECURSIVE ParseNodes(_, _, _)
ParseNodes(mem, offset, d) ==
    IF ~(offset < Len(mem)) THEN [d EXCEPT !.offset = offset]
    ELSE IF Slice(mem, offset, 2) = EOF THEN [d EXCEPT !.offset = offset]
    ELSE IF Slice(mem, offset, 1) # TYPE_DATA THEN [d EXCEPT !.offset = offset]
    ELSE IF ~CanUnpack(mem, offset + 1, 4) \/ ~CanUnpack(mem, offset + 5, 4)
         THEN Raise(d, "struct_error")
    ELSE LET index == U32At(mem, offset + 1)
             node_bytes == U32At(mem, offset + 5)
             r == from_bytes(Slice(mem, offset + 9, node_bytes))
             obj == Cardinality(DOMAIN d.objs)
         IN  IF r.err # "" THEN Raise(d, r.err)
             ELSE ParseNodes(mem, offset + 9 + node_bytes,
                     [d EXCEPT
                        !.objs = [o \in (DOMAIN d.objs) \cup {obj} |->
                                     IF o = obj THEN r.node ELSE d.objs[o]],
                        !.index = [k \in (DOMAIN d.index) \cup {index} |->
                                      IF k = index THEN obj ELSE d.index[k]],
                        !.head = IF r.node.name = HeadName THEN obj ELSE d.head,
                        !.parsed = d.parsed + 1])

\* for i in range(n_forwards): relink the lane from curr on
RECURSIVE ParseLane(_, _, _, _, _, _)
ParseLane(mem, offset, d, lvl, curr, n_forwards) ==
    IF n_forwards = 0 THEN [d EXCEPT !.offset = offset]
    ELSE IF ~CanUnpack(mem, offset, 4) THEN Raise(d, "struct_error")
    ELSE LET nidx == U32At(mem, offset)
         IN  IF nidx = NO_VALUE
             THEN ParseLane(mem, offset + 4, d, lvl, curr, n_forwards - 1)
             ELSE IF nidx \notin DOMAIN d.index THEN Raise(d, "key_error")
             ELSE IF ~(lvl < Len(d.objs[curr].forwards)) THEN Raise(d, "index_error")
             ELSE ParseLane(mem, offset + 4,
                     [d EXCEPT !.objs[curr].forwards[lvl + 1] = d.index[nidx]],
                     lvl, d.index[nidx], n_forwards - 1)

\* the second while loop: the lane records
RECURSIVE ParseLanes(_, _, _)
ParseLanes(mem, offset, d) ==
    IF ~(offset < Len(mem)) THEN [d EXCEPT !.offset = offset]
    ELSE IF Slice(mem, offset, 2) = EOF THEN [d EXCEPT !.offset = offset]
    ELSE IF Slice(mem, offset, 1) # TYPE_LANE THEN [d EXCEPT !.offset = offset]
    ELSE IF ~CanUnpack(mem, offset + 1, 8) THEN Raise(d, "struct_error")
    ELSE LET lvl == U32At(mem, offset + 1)
             n_forwards == U32At(mem, offset + 5)
             d1 == ParseLane(mem, offset + 9, d, lvl, d.head, n_forwards)
         IN  IF d1.status # "ok" THEN d1 ELSE ParseLanes(mem, d1.offset, d1)

\* marshal_from_page from skiplist_level = struct.unpack_from(...) on: the
\* page behind the magic
ParsePage(data) ==
    IF ~CanUnpack(data, 4, 4) THEN NoList("struct_error")
    ELSE LET skplist ==
                 [status |-> "ok", constructed |-> TRUE, parsed |-> 0, offset |-> 11,
                  objs |-> [o \in {0} |-> SkipNode(HeadName, NIL, DecoderMaxLevel)],
                  index |-> <<>>, head |-> 0, level |-> U32At(data, 4),
                  max_level |-> DecoderMaxLevel, size |-> 0]
             d1 == ParseNodes(data, 11, skplist)
         IN  IF d1.status # "ok" THEN d1 ELSE ParseLanes(data, d1.offset, d1)

\* marshal_from_page comparing one byte of the magic too few
marshal_from_page_short_magic(data) ==
    IF Slice(data, 0, 3) # SubSeq(MAGIC_BYTE, 1, 3) THEN NoList("incompatible_file")
    ELSE ParsePage(data)

\* FileWriter.marshal_from_page up to its closing skplist.print_list()
marshal_from_page(data) ==
    IF Slice(data, 0, 4) # MAGIC_BYTE THEN NoList("incompatible_file")
    ELSE ParsePage(data)

\* number of nodes insert has allocated
Allocated == Cardinality(DOMAIN nodes) - 1

\* the key the callers give the n-th inserted node: "a", "b", "c", "d", ...
KeyOf(n) == <<96 + n>>

Init ==
    /\ max_level = MaxLevel
    /\ nodes = [n \in {HeadId} |-> SkipNode(HeadName, NIL, max_level)]
    /\ level = 0
    /\ size = 0
    /\ ret = [op |-> "init", arg |-> 0, val |-> "None", node |-> NIL]
    /\ inserted = {}
    /\ live = {}
    /\ dup = FALSE
    /\ pc = "ops"
    /\ buf = <<>>
    /\ dec = NoList("ok")
    /\ pl_level = 0
    /\ pl_curr = NIL
    /\ level_repr = <<>>

Insert(key, value) ==
    /\ pc = "ops"
    /\ Allocated < MaxNodes
    /\ \E new_lvl \in random_level(size, max_level) :
         LET node == Allocated + 1
             r == insert(nodes, max_level, level, size, node, key, value, new_lvl)
         IN  /\ nodes' = r.nodes
             /\ level' = r.level
             /\ size' = r.size
             /\ ret' = [op |-> "insert", arg |-> value, val |-> "self", node |-> node]
             /\ live' = live \cup {node}
    /\ inserted' = inserted \cup {value}
    /\ dup' = (dup \/ \E n \in Range(Chain(nodes, HeadId, 0)) : nodes[n].value = value)
    /\ UNCHANGED <<max_level, pc, codec>>

SearchCall(value) ==
    /\ pc = "ops"
    /\ ret' = [op |-> "search", arg |-> value,
               val |-> IF search(nodes, level, value) THEN "True" ELSE "False",
               node |-> NIL]
    /\ UNCHANGED <<list, hist, pc, codec>>

Remove(value) ==
    /\ pc = "ops"
    /\ LET r == remove(nodes, max_level, level, size, value)
       IN  /\ nodes' = r.nodes
           /\ level' = r.level
           /\ size' = r.size
           /\ ret' = [op |-> "remove", arg |-> value, val |-> r.val, node |-> r.node]
           /\ live' = IF r.val = "None" THEN live \ {r.node} ELSE live
    /\ UNCHANGED <<max_level, inserted, dup, pc, codec>>

\* FileWriter.marshal_to_page(skplist)
Marshal ==
    /\ pc = "ops"
    /\ buf' = marshal_to_page(nodes, level)
    /\ pc' = "page"
    /\ ret' = [op |-> "marshal_to_page", arg |-> 0, val |-> "bytes", node |-> NIL]
    /\ UNCHANGED <<list, hist, dec, pl_level, pl_curr, level_repr>>

\* offsets of the page where a record starts
RecordStarts(h, lvl) ==
    LET order == Bfs(h, <<HeadId>>, <<>>)
        all == Len(marshal_to_page(h, lvl))
    IN  {all - 2 - Len(LaneRecords(h, order, l)) : l \in (-1) .. lvl}
            \cup {all - 2 - Len(LaneRecords(h, order, lvl)) - Len(NodeRecords(h, order, k)) :
                     k \in 1 .. (Len(order) + 1)}

\* where the page is cut: inside the header, at a record, a few bytes into one,
\* inside the end marker
CutPoints(h, lvl) ==
    LET all == Len(marshal_to_page(h, lvl))
        starts == RecordStarts(h, lvl)
    IN  ({0, 3, 6} \cup starts \cup {k + 3 : k \in starts} \cup {all - 1})
            \cap (0 .. (all - 1))

Pristine == buf = marshal_to_page(nodes, level)

\* the page reaches the reader cut short (a crash mid-write)
Truncate(k) ==
    /\ pc = "page"
    /\ Pristine
    /\ buf' = SubSeq(buf, 1, k)
    /\ UNCHANGED <<list, hist, ret, pc, dec, pl_level, pl_curr, level_repr>>

\* the reader is given a page of some other format
BadMagic(i, b) ==
    /\ pc = "page"
    /\ Pristine
    /\ buf[i] # b
    /\ buf' = [buf EXCEPT ![i] = b]
    /\ UNCHANGED <<list, hist, ret, pc, dec, pl_level, pl_curr, level_repr>>

\* FileWriter.marshal_from_page(buf), up to the call of print_list
Unmarshal ==
    /\ pc = "page"
    /\ dec' = marshal_from_page(buf)
    /\ pc' = IF dec'.status = "ok" THEN "print" ELSE "raised"
    /\ pl_level' = dec'.level
    /\ pl_curr' = dec'.head
    /\ level_repr' = <<>>
    /\ ret' = [op |-> "marshal_from_page", arg |-> 0, val |-> dec'.status, node |-> NIL]
    /\ UNCHANGED <<list, hist, buf>>

\* print_list has come back to a node it already appended at this level: the
\* heap does not change while it runs, so from here on the while loop repeats
\* the same iterations and never ends.  The model stops following it here.
Revisits == pl_curr # NIL /\ pl_curr \in Range(level_repr)

\* SkipList.print_list on the decoded list, one test of a loop condition a step
PrintStep ==
    /\ pc = "print"
    /\ ~Revisits
    /\ IF pl_level < 0
       THEN \* the for loop is over: print, and marshal_from_page returns skplist
            /\ pc' = "returned"
            /\ UNCHANGED <<dec, pl_level, pl_curr, level_repr>>
       ELSE IF pl_curr = NIL
       THEN \* while curr: is over, next level
            /\ pl_level' = pl_level - 1
            /\ pl_curr' = dec.head
            /\ level_repr' = <<>>
            /\ UNCHANGED <<dec, pc>>
       ELSE IF ~(pl_level < Len(dec.objs[pl_curr].forwards))
       THEN \* curr.forwards[level] raises IndexError
            /\ dec' = Raise(dec, "index_error")
            /\ pc' = "raised"
            /\ UNCHANGED <<pl_level, pl_curr, level_repr>>
       ELSE /\ level_repr' = Append(level_repr, pl_curr)
            /\ pl_curr' = dec.objs[pl_curr].forwards[pl_level + 1]
            /\ UNCHANGED <<dec, pc, pl_level>>
    /\ UNCHANGED <<list, hist, ret, buf>>

Next ==
    \/ \E value \in Values : Insert(KeyOf(Allocated + 1), value)
    \/ \E value \in Values : SearchCall(value)
    \/ \E value \in Values : Remove(value)
    \/ Marshal
    \/ Unmarshal
    \/ PrintStep

Spec == Init /\ [][Next]_vars

\* lists built by inserts alone, and pages damaged on the way to the reader
NextPage ==
    \/ \E value \in Values : Allocated < MaxPageNodes /\ Insert(KeyOf(Allocated + 1), value)
    \/ Marshal
    \/ \E k \in CutPoints(nodes, level) : Truncate(k)
    \/ \E i \in 1 .. 4 : BadMagic(i, 0)
    \/ Unmarshal
    \/ PrintStep

SpecPage == Init /\ [][NextPage]_vars

\* ================================================================= claims
\* the values along the chain of level i from head
Vals(h, i) == [k \in DOMAIN Chain(h, HeadId, i) |-> h[Chain(h, HeadId, i)[k]].value]

StrictlyIncreasing(s) == \A k \in 1 .. (Len(s) - 1) : s[k] < s[k + 1]
NonDecreasing(s) == \A k \in 1 .. (Len(s) - 1) : s[k] <= s[k + 1]

\* some node insert made with this value has not been unlinked by a remove
LiveValue(v) == \E n \in live : nodes[n].value = v

\* the level-0 chain from head holds this value
InLevel0(v) == \E n \in Range(Chain(nodes, HeadId, 0)) : nodes[n].value = v

\* no remove has unlinked anything yet: the list is what the inserts built
OnlyInserts == live = (DOMAIN nodes) \ {HeadId}

\* the chain of level i from node n, followed for at most fuel nodes (a chain
\* of the decoded list may run in a circle)
RECURSIVE BoundedChain(_, _, _, _)
BoundedChain(h, n, i, fuel) ==
    IF fuel = 0 \/ ~(i < Len(h[n].forwards)) \/ h[n].forwards[i + 1] = NIL THEN <<>>
    ELSE <<h[n].forwards[i + 1]>> \o BoundedChain(h, h[n].forwards[i + 1], i, fuel - 1)

KeyValues(h, chain) == [k \in DOMAIN chain |-> <<h[chain[k]].name, h[chain[k]].value>>]

DecodedLane(i) ==
    KeyValues(dec.objs,
              BoundedChain(dec.objs, dec.head, i, Cardinality(DOMAIN dec.objs) + 1))

OriginalLane(i) == KeyValues(nodes, Chain(nodes, HeadId, i))

Finished == pc \in {"print", "returned", "raised"}

\* C1: decoding the page marshal_to_page made of a list built by inserts alone
\* (none included) gives a list whose chain at every level 0..level has the
\* same keys and values in the same order as the original chain of that level.
\* Stated under SpecPage, whose lists are built by inserts alone.
C1_RoundTrip ==
    (Finished /\ Pristine) =>
        /\ dec.status = "ok"
        /\ \A i \in 0 .. level : DecodedLane(i) = OriginalLane(i)

\* C2: search(v) is true for every value inserted and not removed since, and
\* false for every value never inserted.  Stated for the histories in which no
\* insert was given a value the list already held.
C2_SearchCorrect ==
    ~dup => \A v \in Values :
               /\ LiveValue(v) => search(nodes, level, v)
               /\ v \notin inserted => ~search(nodes, level, v)

\* C3 as claimed: after any inserts and removes the level-0 chain from head is
\* strictly increasing by value.
C3_Level0StrictlyIncreasing == StrictlyIncreasing(Vals(nodes, 0))

\* C3 as amended: the level-0 chain from head is non-decreasing by value, and
\* strictly increasing as long as no insert was given a value the chain
\* already held.
C3_Level0Sorted ==
    /\ NonDecreasing(Vals(nodes, 0))
    /\ ~dup => StrictlyIncreasing(Vals(nodes, 0))

\* C3 witness: after inserts and a remove that unlinked a node, the level-0
\* chain holds two neighbours of equal value.
C3_Witness ==
    /\ ret.op = "remove" /\ ret.val = "None"
    /\ \E k \in 1 .. (Len(Vals(nodes, 0)) - 1) : Vals(nodes, 0)[k] = Vals(nodes, 0)[k + 1]

\* C4: on a list built only by inserts of distinct values, remove(v) of a value
\* the list holds never raises node_mismatch.
C4_RemovePresentNeverMismatch ==
    [][\A v \in Values :
          (Remove(v) /\ OnlyInserts /\ ~dup /\ InLevel0(v))
              => ret'.val # "node_mismatch"]_vars

\* C5: when remove(v) succeeds (it found the value and did not raise), a
\* search(v) right after it is false and size is one less than before.  Stated
\* for the histories in which no insert was given a value the list already held.
C5_RemoveSuccessPostcondition ==
    [][\A v \in Values :
          (Remove(v) /\ ~dup /\ ret'.node # NIL /\ ret'.val # "node_mismatch")
              => (~search(nodes', level', v) /\ size' = size - 1)]_vars

\* C6: remove returns a boolean: True when it found and unlinked a node with
\* the value, False when no node has the value.
C6_RemoveReturnsBool ==
    (ret.op = "remove" /\ ret.val # "node_mismatch") =>
        /\ ret.node # NIL => ret.val = "True"
        /\ ret.node = NIL => ret.val = "False"

\* C7: remove(v) of a value the list does not hold (no node inserted with it is
\* still there, and the level-0 chain has none) returns False and changes no
\* forward slot, nor level, nor size.  Stated for the histories in which no
\* insert was given a value the list already held.
C7_RemoveAbsentChangesNothing ==
    [][\A v \in Values :
          (Remove(v) /\ ~dup /\ ~LiveValue(v) /\ ~InLevel0(v))
              => (ret'.val = "False" /\ nodes' = nodes /\ level' = level /\ size' = size)]_vars

\* the page is a page marshal_to_page made, cut at the start of a record: its
\* magic and every record in it are whole
CutAtRecord ==
    \E k \in RecordStarts(nodes, level) : buf = SubSeq(marshal_to_page(nodes, level), 1, k)

EndsWithEOF(b) == Len(b) >= 2 /\ SubSeq(b, Len(b) - 1, Len(b)) = EOF

\* C8: decoding a page with valid magic and records whose last two bytes are
\* not the end marker EE 0F fails with FormatViolation instead of giving a list.
C8_EndMarkerChecked ==
    (Finished /\ CutAtRecord /\ ~EndsWithEOF(buf)) => dec.status = "format_violation"

\* C9: decoding a page whose first 4 bytes are not DE AD BE EF raises
\* incompatible_file, before any node record is parsed and before any list is
\* constructed.
C9_MagicRejection ==
    (Finished /\ Slice(buf, 0, 4) # MAGIC_BYTE) =>
        /\ pc = "raised"
        /\ dec.status = "incompatible_file"
        /\ dec.parsed = 0
        /\ ~dec.constructed

\* C9 witness: a page with node records behind a wrong magic has been refused.
C9_Witness ==
    /\ pc = "raised"
    /\ Len(buf) > 11
    /\ Slice(buf, 0, 4) # MAGIC_BYTE
    /\ Slice(buf, 11, 1) = TYPE_DATA
    /\ dec.status = "incompatible_file"

\* C10: decoding the page made of any list insert and remove can reach (the
\* empty list too) terminates: its closing print_list never comes back to a
\* node it already appended at the same level.
C10_DecodeTerminates == ~(pc = "print" /\ Pristine /\ Revisits)

\* ------------------------------------------------- the scenario of __main__
\* skplist = SkipList(max_level=5, probab=0.5)
ScenarioMaxLevel == 5

\* skplist.insert("a", 10).insert("b", 20).insert("c", 15).insert("d", 6)
ScenarioValues == <<10, 20, 15, 6>>

\* the values the scenario searches for: search(15), search(40)
ScenarioSearches == {15, 40}

InitScenario ==
    /\ max_level = ScenarioMaxLevel
    /\ nodes = [n \in {HeadId} |-> SkipNode(HeadName, NIL, max_level)]
    /\ level = 0
    /\ size = 0
    /\ ret = [op |-> "init", arg |-> 0, val |-> "None", node |-> NIL]
    /\ inserted = {}
    /\ live = {}
    /\ dup = FALSE
    /\ pc = "ops"
    /\ buf = <<>>
    /\ dec = NoList("ok")
    /\ pl_level = 0
    /\ pl_curr = NIL
    /\ level_repr = <<>>

\* the next insert of the chain of calls
ScenarioInsert ==
    /\ Allocated < Len(ScenarioValues)
    /\ Insert(KeyOf(Allocated + 1), ScenarioValues[Allocated + 1])

NextScenario ==
    \/ ScenarioInsert
    \/ \E value \in ScenarioSearches : SearchCall(value)
    \/ Marshal
    \/ Unmarshal
    \/ PrintStep

SpecScenario == InitScenario /\ [][NextScenario]_vars

\* d(6), a(10), c(15), b(20)
ScenarioOrder == << <<KeyOf(4), 6>>, <<KeyOf(1), 10>>, <<KeyOf(3), 15>>, <<KeyOf(2), 20>> >>

ScenarioDone == Allocated = Len(ScenarioValues)

\* C11: after insert (a,10), (b,20), (c,15), (d,6) into a list of max level 5,
\* whatever levels were drawn, the level-0 chain is d(6), a(10), c(15), b(20);
\* search(15) is true and search(40) is false; decoding the page of the list
\* succeeds, its print_list ends, and the decoded level-0 chain is the same.
C11_Scenario ==
    ScenarioDone =>
        /\ OriginalLane(0) = ScenarioOrder
        /\ search(nodes, level, 15)
        /\ ~search(nodes, level, 40)
        /\ (ret.op = "search" /\ ret.arg = 15) => ret.val = "True"
        /\ (ret.op = "search" /\ ret.arg = 40) => ret.val = "False"
        /\ Finished => (dec.status = "ok" /\ ~Revisits /\ DecodedLane(0) = ScenarioOrder)

\* C11 witness: the four inserts are done, the page has been decoded and
\* marshal_from_page has returned the list with the scenario's level-0 chain.
C11_Witness ==
    /\ ScenarioDone
    /\ pc = "returned"
    /\ DecodedLane(0) = ScenarioOrder

\* the chain of level i from head has no cycle: followed for one node more
\* than the heap holds, it never comes to the same node twice
LaneAcyclic(h, i) ==
    LET c == BoundedChain(h, HeadId, i, Cardinality(DOMAIN h) + 1)
    IN  Cardinality(Range(c)) = Len(c)

LaneValues(h, i) ==
    LET c == BoundedChain(h, HeadId, i, Cardinality(DOMAIN h) + 1)
    IN  [k \in DOMAIN c |-> h[c[k]].value]

\* C12: after any inserts and removes, at every level i the chain from
\* head.forwards[i] is strictly increasing by value and ends at an empty slot.
\* Stated for the histories in which no insert was given a value the list
\* already held.
C12_LanesStrictlyIncreasing ==
    ~dup => \A i \in 0 .. max_level :
               /\ LaneAcyclic(nodes, i)
               /\ StrictlyIncreasing(LaneValues(nodes, i))

\* the highest level at which head has a successor, 0 when it has none
TopLane(h, maxlvl) ==
    LET used == {i \in 0 .. maxlvl : Fwd(h, HeadId, i) # NIL}
    IN  IF used = {} THEN 0 ELSE CHOOSE i \in used : \A j \in used : j <= i

\* C13: after any inserts and removes, level is the highest level i at which
\* head.forwards[i] is not empty, 0 for an empty list.
C13_LevelTracksTopLane == level = TopLane(nodes, max_level)

\* the nodes reachable from head through forward slots
Reachable(h) == Range(Bfs(h, <<HeadId>>, <<>>))

\* C14: after a remove that found its node and returned, that node is the
\* successor of no node reachable from head, at any level.
C14_RemoveNeverPartial ==
    (ret.op = "remove" /\ ret.val = "None") =>
        \A n \in Reachable(nodes) :
            \A k \in DOMAIN nodes[n].forwards : nodes[n].forwards[k] # ret.node

\* C15: after any inserts and removes, the level-0 chain from head holds every
\* node inserted and not removed since exactly once, and no other node.
C15_Level0Complete ==
    LET c == Chain(nodes, HeadId, 0)
    IN  /\ Range(c) = live
        /\ Len(c) = Cardinality(live)

\* ------------------------------------------- the list under insert and remove
NextOps ==
    \/ \E value \in Values : Insert(KeyOf(Allocated + 1), value)
    \/ \E value \in Values : Remove(value)

SpecOps == Init /\ [][NextOps]_vars

\* the step is a call of insert
InsertStep == \E value \in Values : Insert(KeyOf(Allocated + 1), value)

\* the update node insert uses at level i for a value: the node its search
\* stopped at, head for the levels above the list's level
UpdateNode(h, maxlvl, lvl, value, i) ==
    IF i > lvl THEN HeadId ELSE Updates(h, maxlvl, lvl, value)[i]

\* C16: insert(key, value) makes a node of drawnLevel + 1 forward slots, with
\* drawnLevel one of the levels _random_level can draw; at every level
\* 0..drawnLevel the node becomes the successor of that level's update node and
\* gets the update node's former successor as its own; size grows by 1; level
\* becomes max(old level, drawnLevel) and is at most max_level.
C16_InsertPostcondition ==
    [][InsertStep =>
          LET n == ret'.node
              drawn == Len(nodes'[n].forwards) - 1
          IN  /\ n \notin DOMAIN nodes
              /\ drawn \in random_level(size, max_level)
              /\ nodes'[n].level = drawn + 1
              /\ \A i \in 0 .. drawn :
                    LET upd == UpdateNode(nodes, max_level, level, ret'.arg, i)
                    IN  /\ Fwd(nodes', upd, i) = n
                        /\ Fwd(nodes', n, i) = Fwd(nodes, upd, i)
              /\ size' = size + 1
              /\ level' = (IF drawn > level THEN drawn ELSE level)
              /\ level' <= max_level]_vars

\* C16 witness: insert has put a node of two or more levels between a node
\* that is not head and that node's former successor.
C16_Witness ==
    /\ ret.op = "insert"
    /\ Len(nodes[ret.node].forwards) >= 2
    /\ Fwd(nodes, ret.node, 0) # NIL
    /\ Fwd(nodes, HeadId, 0) # ret.node
    /\ ret.node \in Range(Chain(nodes, HeadId, 0))

\* ------------------------- the list of max level 5 under insert and remove
NextTall ==
    \/ \E value \in 1 .. MaxTallValue : Insert(KeyOf(Allocated + 1), value)
    \/ \E value \in 1 .. MaxTallValue : Remove(value)

SpecTall == InitScenario /\ [][NextTall]_vars

\* C19: when remove raises node_mismatch, the call has changed no forward slot
\* of any node, nor level, nor size.
C19_MismatchChangesNothing ==
    [][\A v \in 1 .. MaxTallValue :
          (Remove(v) /\ ret'.val = "node_mismatch")
              => (nodes' = nodes /\ level' = level /\ size' = size)]_vars

\* ------------------------------------ pages of lists under insert and remove
NextEncode ==
    \/ \E value \in Values : Insert(KeyOf(Allocated + 1), value)
    \/ \E value \in Values : Remove(value)
    \/ Marshal

SpecEncode == Init /\ [][NextEncode]_vars

\* the nodes reachable from head through non-empty forward slots, as a closure
RECURSIVE ReachableFrom(_, _)
ReachableFrom(h, S) ==
    LET T == S \cup {f \in UNION {Range(h[n].forwards) : n \in S} : f # NIL}
    IN  IF T = S THEN S ELSE ReachableFrom(h, T)

\* the index fields of the node records of a page, in file order
RECURSIVE RecordIndexes(_, _)
RecordIndexes(b, offset) ==
    IF Slice(b, offset, 1) # TYPE_DATA THEN <<>>
    ELSE <<U32At(b, offset + 1)>>
             \o RecordIndexes(b, offset + 9 + U32At(b, offset + 5))

\* the payloads of the node records of a page, in file order
RECURSIVE RecordPayloads(_, _)
RecordPayloads(b, offset) ==
    IF Slice(b, offset, 1) # TYPE_DATA THEN <<>>
    ELSE <<Slice(b, offset + 9, U32At(b, offset + 5))>>
             \o RecordPayloads(b, offset + 9 + U32At(b, offset + 5))

\* the positions of `order` whose node has the node at position k in a slot
Parents(h, order, k) ==
    {p \in 1 .. Len(order) : order[k] \in Range(h[order[p]].forwards)}

\* the first of them: the node whose visit put the node at position k in the queue
FirstParent(h, order, k) ==
    CHOOSE p \in Parents(h, order, k) : \A q \in Parents(h, order, k) : p <= q

\* the first slot of that node holding the node at position k
FirstSlot(h, order, k) ==
    LET fw == h[order[FirstParent(h, order, k)]].forwards
    IN  CHOOSE s \in DOMAIN fw : fw[s] = order[k] /\ \A t \in DOMAIN fw : fw[t] = order[k] => s <= t

\* order is the order a breadth-first walk from head first meets the nodes in
FirstVisitOrder(h, order) ==
    /\ order[1] = HeadId
    /\ \A k \in 2 .. Len(order) :
          /\ Parents(h, order, k) # {}
          /\ FirstParent(h, order, k) < k
    /\ \A j, k \in 2 .. Len(order) :
          j < k =>
             \/ FirstParent(h, order, j) < FirstParent(h, order, k)
             \/ /\ FirstParent(h, order, j) = FirstParent(h, order, k)
                /\ FirstSlot(h, order, j) < FirstSlot(h, order, k)

\* C17: in the page marshal_to_page makes, the node records carry the indices
\* 0, 1, .., n-1 in this order, n the number of nodes reachable from head; the
\* record of index k holds the k-th node of a numbering that gives every
\* reachable node exactly one index, head index 0, in the order a breadth-first
\* walk from head first visits them.
C17_BfsNumbering ==
    pc = "page" =>
        LET reach == ReachableFrom(nodes, {HeadId})
            n == Cardinality(reach)
            order == Bfs(nodes, <<HeadId>>, <<>>)
        IN  /\ RecordIndexes(buf, 11) = [k \in 1 .. n |-> k - 1]
            /\ Len(order) = n
            /\ Range(order) = reach
            /\ RecordPayloads(buf, 11) = [k \in 1 .. n |-> to_bytes(nodes[order[k]])]
            /\ FirstVisitOrder(nodes, order)

\* C17 witness: a page has been made of a list in which a node is reachable
\* from head only through an upper level, next to two or more other nodes.
C17_Witness ==
    /\ pc = "page"
    /\ Cardinality(ReachableFrom(nodes, {HeadId})) >= 4
    /\ \E n \in ReachableFrom(nodes, {HeadId}) \ {HeadId} :
          n \notin Range(Chain(nodes, HeadId, 0))

\* ------------------------------------------------------ one node's payload
\* keys of the nodes encoded: "", "a", "head", and U+00E9, two bytes in UTF-8
NodeNames == {<<>>, <<97>>, HeadName, <<233>>}

\* their values: None, and integers up to and beyond 0xFFFF
NodeValues == {NIL, 0, 10, NO_VALUE, NO_VALUE + 1}

\* node = SkipNode(name, value, max_level): the object kept under id 0
InitNode ==
    /\ max_level = MaxLevel
    /\ \E name \in NodeNames, value \in NodeValues, maxlvl \in 0 .. MaxLevel :
          nodes = [n \in {HeadId} |-> SkipNode(name, value, maxlvl)]
    /\ level = 0
    /\ size = 0
    /\ ret = [op |-> "init", arg |-> 0, val |-> "None", node |-> NIL]
    /\ inserted = {}
    /\ live = {}
    /\ dup = FALSE
    /\ pc = "node"
    /\ buf = <<>>
    /\ dec = NoList("ok")
    /\ pl_level = 0
    /\ pl_curr = NIL
    /\ level_repr = <<>>

\* data = node.to_bytes()
ToBytes ==
    /\ pc = "node"
    /\ buf' = to_bytes(nodes[HeadId])
    /\ pc' = "node_bytes"
    /\ ret' = [op |-> "to_bytes", arg |-> 0, val |-> "bytes", node |-> HeadId]
    /\ UNCHANGED <<list, hist, dec, pl_level, pl_curr, level_repr>>

\* SkipNode.from_bytes(memoryview(data)): the node it returns is kept as
\* dec.objs[0], the exception it raises as dec.status
FromBytes ==
    /\ pc = "node_bytes"
    /\ LET r == from_bytes(buf)
       IN  /\ dec' = [NoList(IF r.err = "" THEN "ok" ELSE r.err)
                         EXCEPT !.objs = [o \in {0} |-> r.node]]
           /\ ret' = [op |-> "from_bytes", arg |-> 0,
                      val |-> IF r.err = "" THEN "node" ELSE r.err, node |-> NIL]
    /\ pc' = "node_decoded"
    /\ UNCHANGED <<list, hist, buf, pl_level, pl_curr, level_repr>>

NextNode == ToBytes \/ FromBytes

SpecNode == InitNode /\ [][NextNode]_vars

\* C18: from_bytes(to_bytes(node)) returns a node with the same key, the same
\* number of forward slots and the same value: None for None, and every
\* integer, 0xFFFF too, for itself.
C18_NodeRoundTrip ==
    pc = "node_decoded" =>
        /\ dec.status = "ok"
        /\ dec.objs[0].name = nodes[HeadId].name
        /\ dec.objs[0].level = nodes[HeadId].level
        /\ Len(dec.objs[0].forwards) = Len(nodes[HeadId].forwards)
        /\ dec.objs[0].value = nodes[HeadId].value

\* ------------------------------------------ lists holding a key named "head"
NextHeadKey ==
    \/ \E value \in Values, key \in {KeyOf(Allocated + 1), HeadName} :
          Allocated < MaxPageNodes /\ Insert(key, value)
    \/ Marshal
    \/ Unmarshal
    \/ PrintStep

SpecHeadKey == Init /\ [][NextHeadKey]_vars

\* C20: the list marshal_from_page returns for the page of a list, one holding
\* a node with key "head" too, has as its head the node of index 0, and that
\* node has no value.
C20_DecodedHeadIsSentinel ==
    (pc = "returned" /\ Pristine) =>
        /\ 0 \in DOMAIN dec.index
        /\ dec.head = dec.index[0]
        /\ dec.objs[dec.head].value = NIL
====
